---- MODULE Spec2Model ----
(***************************************************************************)
(* The ingestion store of twitter-data-intelligence:                       *)
(* src/src/load/database_loader.py (DatabaseLoader over SQLite).           *)
(*                                                                         *)
(* db        : the four tables as the loader's connection sees them,       *)
(*             uncommitted writes of the open transaction included         *)
(* committed : the four tables as last committed                           *)
(* last      : the most recent call and what it gave its caller            *)
(* kept      : the batch the caller still holds from its last save         *)
(* stats     : the dictionary returned by the most recent get_daily_stats  *)
(* sentiment : the most recent call of analyze_sentiment                   *)
(*             (src/src/transform/sentiment_analyzer.py) and its result    *)
(* classifier: what became of the sentiment analysis of the most recent    *)
(*             save_tweets_with_sentiment                                  *)
(* df        : the rows returned by the most recent query                  *)
(* writer    : the ingestion processes that share the database file, each  *)
(*             with a connection of its own: where each stands in          *)
(*             save_tweets and what its open transaction holds             *)
(* lock      : the process that holds the write lock of the file           *)
(* reader    : a process in get_daily_stats on a connection of its own     *)
(***************************************************************************)
EXTENDS Integers, Sequences, FiniteSets, TLC

VARIABLES db, committed, last, kept, stats, sentiment, classifier, df,
          writer, lock, reader

vars == <<db, committed, last, kept, stats, sentiment, classifier, df,
          writer, lock, reader>>

\* the processes that run beside the loader
processes == <<writer, lock, reader>>

(***************************************************************************)
(* Bounds of the model.                                                    *)
(***************************************************************************)
\* the longest batch handed to save_tweets
MaxBatch == 2

\* the longest hashtags or mentions list of a record
MaxEntities == 2

(***************************************************************************)
(* Python values.  A text value is a sequence of characters; a list entry  *)
(* or a nullable column carries its type with it.                          *)
(***************************************************************************)
NULL == "NULL"

Text(s) == [type |-> "str", val |-> s]

None == [type |-> "none", val |-> <<>>]

Num(s) == [type |-> "int", val |-> s]

\* bool(v) of a Python value: None, "" and 0 are false
Truthy(v) ==
    CASE v.type = "str"  -> v.val # <<>>
      [] v.type = "none" -> FALSE
      [] OTHER           -> v.val # <<"0">>

\* isinstance(v, str)
IsStr(v) == v.type = "str"

LowerChar(c) ==
    CASE c = "A" -> "a"
      [] c = "B" -> "b"
      [] c = "X" -> "x"
      [] OTHER   -> c

\* str.lower()
Lower(s) == [i \in 1..Len(s) |-> LowerChar(s[i])]

IsSpace(c) == c = " "

RECURSIVE LStrip(_)
LStrip(s) ==
    IF s # <<>> /\ IsSpace(Head(s)) THEN LStrip(Tail(s)) ELSE s

RECURSIVE RStrip(_)
RStrip(s) ==
    IF s # <<>> /\ IsSpace(s[Len(s)]) THEN RStrip(SubSeq(s, 1, Len(s) - 1)) ELSE s

\* str.strip()
Strip(s) == RStrip(LStrip(s))

(***************************************************************************)
(* The tables.  Each is the sequence of its rows in rowid order.           *)
(***************************************************************************)
EmptyDb == [tweets |-> <<>>, hashtags |-> <<>>, mentions |-> <<>>, brands |-> <<>>]

\* mutant: the lookup compares the wrong column
TweetExists_wrongColumn(st, id) ==
    /\ id # NULL
    /\ \E i \in 1..Len(st.tweets) : st.tweets[i].user_id = id

\* mutant: the lookup never finds the row
TweetExists_never(st, id) == FALSE

\* SELECT tweet_id FROM tweets WHERE tweet_id = ?  (NULL = NULL is not true)
TweetExists(st, id) ==
    /\ id # NULL
    /\ \E i \in 1..Len(st.tweets) : st.tweets[i].tweet_id = id

\* the row the INSERT statement binds from a raw record
TweetRow(tweet) ==
    [tweet_id           |-> tweet.tweet_id,
     created_at         |-> tweet.created_at,
     content            |-> IF tweet.text # NULL /\ tweet.text # ""
                            THEN tweet.text ELSE tweet.content,
     user_id            |-> tweet.user_id,
     user_name          |-> tweet.user_name,
     retweet_count      |-> tweet.retweet_count,
     favorite_count     |-> tweet.favorite_count,
     reply_count        |-> tweet.reply_count,
     sentiment_score    |-> tweet.sentiment_score,
     sentiment_category |-> tweet.sentiment_category,
     brand_mentioned    |-> tweet.brand_mentioned]

\* mutant: only tweet_id is NOT NULL
NotNullViolation_idOnly(row) == row.tweet_id = NULL

\* the NOT NULL columns of tweets that have no default
NotNullViolation(row) ==
    \/ row.tweet_id = NULL
    \/ row.created_at = <<>>
    \/ row.content = NULL
    \/ row.user_id = NULL
    \/ row.user_name = NULL

\* mutant: tweets has no UNIQUE(tweet_id), the INSERT appends
InsertOrReplaceTweet_noConstraint(rows, row) == Append(rows, row)

\* INSERT OR REPLACE INTO tweets under UNIQUE(tweet_id): a row in conflict is
\* deleted, then the new row is appended
InsertOrReplaceTweet(rows, row) ==
    SelectSeq(rows, LAMBDA r : r.tweet_id # row.tweet_id) \o <<row>>

\* INSERT OR IGNORE INTO hashtags under UNIQUE(tweet_id, hashtag)
InsertOrIgnoreHashtag(rows, row) ==
    IF \E i \in 1..Len(rows) : rows[i] = row THEN rows ELSE Append(rows, row)

\* mutant: mentions is given the insert-or-ignore policy of hashtags
InsertMention_orIgnore(rows, row) ==
    IF \E i \in 1..Len(rows) : rows[i] = row THEN rows ELSE Append(rows, row)

\* INSERT INTO mentions: no uniqueness
InsertMention(rows, row) == Append(rows, row)

\* INSERT OR IGNORE INTO brands under UNIQUE(name)
InsertOrIgnoreBrand(rows, row) ==
    IF \E i \in 1..Len(rows) : rows[i].name = row.name THEN rows ELSE Append(rows, row)

\* mutant: the hashtag is trimmed and not lowercased
NormalizeHashtag_stripOnly(s) == Strip(s)

\* hashtag.lower().strip()
NormalizeHashtag(s) == Strip(Lower(s))

\* mention.strip()
NormalizeMention(s) == Strip(s)

\* "if hashtag and isinstance(hashtag, str)"
KeepEntity(e) == Truthy(e) /\ IsStr(e)

RECURSIVE SaveHashtags(_, _, _)
SaveHashtags(rows, tweet_id, hashtags) ==
    IF hashtags = <<>> THEN rows
    ELSE LET h == Head(hashtags)
             next == IF KeepEntity(h)
                     THEN InsertOrIgnoreHashtag(rows,
                              [tweet_id |-> tweet_id, hashtag |-> NormalizeHashtag(h.val)])
                     ELSE rows
         IN  SaveHashtags(next, tweet_id, Tail(hashtags))

RECURSIVE SaveMentions(_, _, _)
SaveMentions(rows, tweet_id, mentions) ==
    IF mentions = <<>> THEN rows
    ELSE LET m == Head(mentions)
             next == IF KeepEntity(m)
                     THEN InsertMention(rows,
                              [tweet_id |-> tweet_id, mentioned_user |-> NormalizeMention(m.val)])
                     ELSE rows
         IN  SaveMentions(next, tweet_id, Tail(mentions))

(***************************************************************************)
(* save_tweets.  A storage fault is an input of the call:                  *)
(*   <<"none", 0>>          every storage call succeeds                    *)
(*   <<"select", k>>        the lookup of the k-th record raises           *)
(*   <<"commit", 0>>        the commit of the batch raises                 *)
(*   <<"brand_select", 0>>  the SELECT DISTINCT of the maintenance raises  *)
(*   <<"brand_commit", 0>>  the commit of the maintenance raises           *)
(* A fault inside the statements of one record takes the same except       *)
(* branch as a fault at the next lookup.                                   *)
(***************************************************************************)
NoFault == <<"none", 0>>

Faults(batch) ==
    {NoFault, <<"commit", 0>>, <<"brand_select", 0>>, <<"brand_commit", 0>>}
        \cup {<<"select", k>> : k \in 1..Len(batch)}

\* the statements of an accepted record: the tweets row, then its hashtags,
\* then its mentions
InsertTweet(st, tweet) ==
    [st EXCEPT
        !.tweets   = InsertOrReplaceTweet(@, TweetRow(tweet)),
        !.hashtags = SaveHashtags(@, tweet.tweet_id, tweet.hashtags),
        !.mentions = SaveMentions(@, tweet.tweet_id, tweet.mentions)]

\* mutant: no lookup, and a plain INSERT into a table without UNIQUE(tweet_id)
ProcessTweet_plainInsert(run, tweet) ==
    [run EXCEPT
        !.st = [InsertTweet(@, tweet) EXCEPT !.tweets = Append(run.st.tweets, TweetRow(tweet))],
        !.saved_count = @ + 1]

\* mutant: last-write-wins, a stored tweet_id is written again
ProcessTweet_upsert(run, tweet) ==
    IF TweetExists(run.st, tweet.tweet_id)
    THEN [run EXCEPT !.st = InsertTweet(@, tweet), !.skipped = @ + 1]
    ELSE [run EXCEPT !.st = InsertTweet(@, tweet), !.saved_count = @ + 1]

\* mutant: a skipped record is counted as saved
ProcessTweet_countsSkipped(run, tweet) ==
    IF TweetExists(run.st, tweet.tweet_id)
    THEN [run EXCEPT !.skipped = @ + 1, !.saved_count = @ + 1]
    ELSE [run EXCEPT !.st = InsertTweet(@, tweet), !.saved_count = @ + 1]

\* mutant: a stored tweet_id takes the sentiment of the record handed in
ProcessTweet_reclassifies(run, tweet) ==
    IF TweetExists(run.st, tweet.tweet_id)
    THEN [run EXCEPT
             !.st.tweets = [i \in DOMAIN @ |->
                 IF @[i].tweet_id = tweet.tweet_id
                 THEN [@[i] EXCEPT !.sentiment_score = tweet.sentiment_score,
                                   !.sentiment_category = tweet.sentiment_category]
                 ELSE @[i]],
             !.skipped = @ + 1]
    ELSE [run EXCEPT !.st = InsertTweet(@, tweet), !.saved_count = @ + 1]

\* mutant: a tweet_id that is already stored fails the batch
ProcessTweet_duplicateRaises(run, tweet) ==
    IF TweetExists(run.st, tweet.tweet_id)
    THEN [run EXCEPT !.err = TRUE]
    ELSE [run EXCEPT !.st = InsertTweet(@, tweet), !.saved_count = @ + 1]

\* one pass of the for loop that does not raise: skip a stored tweet_id,
\* else insert and count
ProcessTweet(run, tweet) ==
    IF TweetExists(run.st, tweet.tweet_id)
    THEN [run EXCEPT !.skipped = @ + 1]
    ELSE [run EXCEPT !.st = InsertTweet(@, tweet), !.saved_count = @ + 1]

\* the statements of one pass that raise: the faulted lookup, or the INSERT
\* of a row with NULL in a NOT NULL column
Raises(run, tweet, k, fault) ==
    \/ fault = <<"select", k>>
    \/ /\ ~TweetExists(run.st, tweet.tweet_id)
       /\ NotNullViolation(TweetRow(tweet))

RECURSIVE SaveLoop(_, _, _, _)
SaveLoop(run, batch, k, fault) ==
    IF k > Len(batch) THEN run
    ELSE IF Raises(run, batch[k], k, fault) THEN [run EXCEPT !.err = TRUE]
    ELSE SaveLoop(ProcessTweet(run, batch[k]), batch, k + 1, fault)

\* SELECT DISTINCT brand_mentioned FROM tweets
\*   WHERE brand_mentioned IS NOT NULL AND brand_mentioned != ''
RECURSIVE DistinctBrands(_)
DistinctBrands(rows) ==
    IF rows = <<>> THEN <<>>
    ELSE LET rest == DistinctBrands(SubSeq(rows, 1, Len(rows) - 1))
             b == rows[Len(rows)].brand_mentioned
         IN  IF /\ b.type = "str"
                /\ b.val # <<>>
                /\ \A i \in 1..Len(rest) : rest[i] # b.val
             THEN Append(rest, b.val)
             ELSE rest

\* the name the maintenance binds for a brand: brand.strip()
BrandName(brand) == Strip(brand)

RECURSIVE InsertBrands(_, _)
InsertBrands(rows, brands) ==
    IF brands = <<>> THEN rows
    ELSE InsertBrands(
             IF Head(brands) # <<>>
             THEN InsertOrIgnoreBrand(rows, [name |-> BrandName(Head(brands))])
             ELSE rows,
             Tail(brands))

\* _update_brand_stats: an exception is logged and swallowed, with no rollback
UpdateBrandStats(st, com, fault) ==
    IF fault = <<"brand_select", 0>>
    THEN [db |-> st, committed |-> com, brand_err |-> TRUE]
    ELSE LET st1 == [st EXCEPT !.brands = InsertBrands(@, DistinctBrands(st.tweets))]
         IN  IF fault = <<"brand_commit", 0>>
             THEN [db |-> st1, committed |-> com, brand_err |-> TRUE]
             ELSE [db |-> st1, committed |-> st1, brand_err |-> FALSE]

\* mutant: the except branch does not roll back
Rollback_missing(st, com) == st

\* mutant: the rollback undoes the rows of tweets only
Rollback_tweetsOnly(st, com) == [st EXCEPT !.tweets = com.tweets]

\* connection.rollback(): the connection sees the committed tables again
Rollback(st, com) == com

\* mutant: the except branch rolls back and re-raises
SaveFailed_reraise(run, com) ==
    [db |-> Rollback(run.st, com), committed |-> com, ret |-> 0, raised |-> TRUE,
     err |-> TRUE, brand_err |-> FALSE,
     saved_count |-> run.saved_count, skipped |-> run.skipped]

\* the except branch of save_tweets: log, roll back, return 0
SaveFailed(run, com) ==
    [db |-> Rollback(run.st, com), committed |-> com, ret |-> 0, raised |-> FALSE,
     err |-> TRUE, brand_err |-> FALSE,
     saved_count |-> run.saved_count, skipped |-> run.skipped]

\* connection.commit(), _update_brand_stats(), return saved_count
SaveCommitted(run, fault) ==
    LET b == UpdateBrandStats(run.st, run.st, fault)
    IN  [db |-> b.db, committed |-> b.committed, ret |-> run.saved_count,
         raised |-> FALSE, err |-> FALSE, brand_err |-> b.brand_err,
         saved_count |-> run.saved_count, skipped |-> run.skipped]

\* save_tweets(tweets_data) called with the tables st (as the connection sees
\* them) and com (as committed)
SaveTweetsResult(st, com, batch, fault) ==
    IF batch = <<>>
    THEN [db |-> st, committed |-> com, ret |-> 0, raised |-> FALSE,
          err |-> FALSE, brand_err |-> FALSE, saved_count |-> 0, skipped |-> 0]
    ELSE LET run == SaveLoop([st |-> st, saved_count |-> 0, skipped |-> 0, err |-> FALSE],
                             batch, 1, fault)
         IN  IF run.err \/ fault = <<"commit", 0>>
             THEN SaveFailed(run, com)
             ELSE SaveCommitted(run, fault)

(***************************************************************************)
(* The classifier, src/src/transform/sentiment_analyzer.py.  Scores are in *)
(* tenths: 8 stands for 0.8.                                               *)
(***************************************************************************)
\* the default thresholds, 0.1 and -0.1
PositiveThreshold == 1

NegativeThreshold == -1

DefaultThresholds == [positive |-> PositiveThreshold, negative |-> NegativeThreshold]

\* SentimentAnalyzer(thresholds): None and the empty dictionary give the defaults
InitThresholds(thresholds) ==
    IF DOMAIN thresholds = {} THEN DefaultThresholds ELSE thresholds

\* TextBlob(cleaned).sentiment.polarity of the texts of the model, in tenths
Polarity(cleaned) ==
    CASE cleaned = <<"c", "1">> -> 5
      [] cleaned = <<"c", "2">> -> -1
      [] cleaned = <<"+", "+">> -> 10
      [] cleaned = <<"+">>      -> 1
      [] cleaned = <<"-">>      -> -5
      [] cleaned = <<"-", "-">> -> -10
      [] OTHER                  -> 0

\* mutant: the result for empty or non-text input carries no category
InvalidResult_uncategorised ==
    [sentiment_score |-> 0, sentiment_category |-> NULL, confidence |-> 0,
     cleaned_text |-> None, raised |-> FALSE]

\* the result for empty or non-text input
InvalidResult ==
    [sentiment_score |-> 0, sentiment_category |-> "neutral", confidence |-> 0,
     cleaned_text |-> None, raised |-> FALSE]

\* mutant: no except branch, the exception reaches the caller
ErrorResult_propagates ==
    [sentiment_score |-> 0, sentiment_category |-> NULL, confidence |-> 0,
     cleaned_text |-> None, raised |-> TRUE]

\* the result of the except branch
ErrorResult ==
    [sentiment_score |-> 0, sentiment_category |-> "neutral", confidence |-> 0,
     cleaned_text |-> Text(<<>>), raised |-> FALSE]

\* self.thresholds[key] raises KeyError: 'positive' is read first, 'negative'
\* only when the polarity is not above the positive threshold
KeyError(polarity, thresholds) ==
    \/ "positive" \notin DOMAIN thresholds
    \/ /\ ~(polarity > thresholds.positive)
       /\ "negative" \notin DOMAIN thresholds

\* mutant: a score equal to a threshold is taken for that side
Categorize_inclusive(polarity, thresholds) ==
    IF polarity >= thresholds.positive THEN "positive"
    ELSE IF polarity <= thresholds.negative THEN "negative"
    ELSE "neutral"

\* Categorize sentiment
Categorize(polarity, thresholds) ==
    IF polarity > thresholds.positive THEN "positive"
    ELSE IF polarity < thresholds.negative THEN "negative"
    ELSE "neutral"

Abs(x) == IF x < 0 THEN 0 - x ELSE x

\* mutant: the confidence is abs(polarity) whatever the category
Confidence_absOnly(polarity, category) == Abs(polarity)

\* abs(polarity) if category != 'neutral' else 1.0 - abs(polarity), in tenths
Confidence(polarity, category) ==
    IF category # "neutral" THEN Abs(polarity) ELSE 10 - Abs(polarity)

\* the try block of analyze_sentiment raises: TextBlob does (raises), or a
\* threshold that is read is missing
Fails(text, thresholds, raises) ==
    raises \/ KeyError(Polarity(Strip(text.val)), thresholds)

\* if not text or not isinstance(text, str)
InvalidText(text) == ~Truthy(text) \/ ~IsStr(text)

\* analyze_sentiment(text) of an analyzer with self.thresholds = thresholds;
\* raises says whether TextBlob raises
AnalyzeSentiment(text, thresholds, raises) ==
    IF InvalidText(text)
    THEN InvalidResult
    ELSE LET cleaned == Strip(text.val)
             polarity == Polarity(cleaned)
         IN  IF Fails(text, thresholds, raises)
             THEN ErrorResult
             ELSE LET category == Categorize(polarity, thresholds)
                  IN  [sentiment_score    |-> polarity,
                       sentiment_category |-> category,
                       confidence         |-> Confidence(polarity, category),
                       cleaned_text       |-> Text(cleaned),
                       raised             |-> FALSE]

\* the characters of a text column of the records of the model
Chars(s) ==
    CASE s = "c1" -> <<"c", "1">>
      [] s = "c2" -> <<"c", "2">>
      [] OTHER    -> <<>>

\* tweet.get('text') or tweet.get('content', '')
TextOf(tweet) ==
    LET text == IF tweet.text # NULL /\ tweet.text # "" THEN tweet.text ELSE tweet.content
    IN  IF text = NULL THEN None ELSE Text(Chars(text))

\* one pass of analyze_tweets: a copy of the record with the sentiment fields set
AnalyzeTweet(tweet, raises) ==
    LET sentiment_ == AnalyzeSentiment(TextOf(tweet), DefaultThresholds, raises)
    IN  [tweet EXCEPT !.sentiment_score = <<sentiment_.sentiment_score>>,
                      !.sentiment_category = sentiment_.sentiment_category]

\* analyze_tweets(tweets)
AnalyzeTweets(tweets, raises) == [k \in 1..Len(tweets) |-> AnalyzeTweet(tweets[k], raises)]

\* the records save_tweets_with_sentiment hands to save_tweets.  outcome is
\* "ok", "raises" (TextBlob raises inside analyze_sentiment), "import_error"
\* (the analyzer cannot be imported) or "error" (analyze_tweets itself raises)
\* mutant: a classifier that fails aborts the ingestion
Classified_abortsOnFailure(batch, analyze_sentiment, outcome) ==
    IF ~analyze_sentiment THEN batch
    ELSE IF outcome \in {"ok", "raises"} THEN AnalyzeTweets(batch, outcome = "raises")
    ELSE <<>>

Classified(batch, analyze_sentiment, outcome) ==
    IF analyze_sentiment /\ outcome \in {"ok", "raises"}
    THEN AnalyzeTweets(batch, outcome = "raises")
    ELSE batch

(***************************************************************************)
(* get_daily_stats.  created_at is a timestamp in hours since the start    *)
(* of day 0; DATE(created_at) is the day it falls on.                      *)
(***************************************************************************)
HoursPerDay == 24

\* the wall clock of the run, in hours
Now == 40

\* mutant: created_at is compared without DATE()
DateOf_raw(ts) == ts

\* DATE(created_at)
DateOf(ts) == ts \div HoursPerDay

NoDate == 0 - 1

NoStats ==
    [date |-> NoDate, total_tweets |-> 0, unique_users |-> 0,
     top_brands |-> <<>>, top_hashtags |-> <<>>]

\* LIMIT 5 of the top brands
TopBrandsLimit == 5

\* LIMIT 10 of the top hashtags
TopHashtagsLimit == 10

\* the rows of tweets with DATE(created_at) = date
RowsOfDate(rows, date) ==
    {i \in 1..Len(rows) : DateOf(rows[i].created_at[1]) = date}

\* the characters of the group keys of the model, in the engine's collation
Alphabet ==
    <<" ", "a", "b", "c", "d", "e", "f", "g", "h", "i", "j", "k", "l", "p", "q", "r",
      "s", "t", "u", "x">>

\* the place of a key among the keys of the model (keys of one character)
Rank(key) ==
    IF key = <<>> \/ ~\E n \in DOMAIN Alphabet : Alphabet[n] = key[1] THEN 0
    ELSE CHOOSE n \in DOMAIN Alphabet : Alphabet[n] = key[1]

\* ORDER BY count DESC puts key before other: the greater count first; groups
\* of equal count in the order the engine leaves them in, which is the order
\* of the keys or its reverse
Precedes(key, other, count, ties) ==
    \/ count[key] > count[other]
    \/ /\ count[key] = count[other]
       /\ IF ties = "asc" THEN Rank(key) < Rank(other) ELSE Rank(key) > Rank(other)

\* mutant: ORDER BY count ASC
OrderByCountDesc_ascending(groups, count, ties) ==
    LET RECURSIVE sorted(_)
        sorted(G) ==
            IF G = {} THEN <<>>
            ELSE LET first == CHOOSE key \in G :
                                  \A other \in G \ {key} : Precedes(other, key, count, ties)
                 IN  <<first>> \o sorted(G \ {first})
    IN  sorted(groups)

\* GROUP BY key ORDER BY count DESC: the keys of the groups in result order
OrderByCountDesc(groups, count, ties) ==
    LET RECURSIVE sorted(_)
        sorted(G) ==
            IF G = {} THEN <<>>
            ELSE LET first == CHOOSE key \in G :
                                  \A other \in G \ {key} : Precedes(key, other, count, ties)
                 IN  <<first>> \o sorted(G \ {first})
    IN  sorted(groups)

\* the second SELECT of get_daily_stats: the brands of the day by mentions
TopBrands(st, day, ties) ==
    LET on == {i \in RowsOfDate(st.tweets, day) :
                  /\ st.tweets[i].brand_mentioned.type = "str"
                  /\ st.tweets[i].brand_mentioned.val # <<>>}
        groups == {st.tweets[i].brand_mentioned.val : i \in on}
        count == [key \in groups |->
                     Cardinality({i \in on : st.tweets[i].brand_mentioned.val = key})]
        ordered == OrderByCountDesc(groups, count, ties)
    IN  [k \in 1..(IF Len(ordered) < TopBrandsLimit THEN Len(ordered) ELSE TopBrandsLimit)
            |-> [brand |-> ordered[k], mentions |-> count[ordered[k]]]]

\* the third SELECT of get_daily_stats: the hashtags of the tweets of the day
\* by usage, hashtags joined to tweets on tweet_id
TopHashtags(st, day, ties) ==
    LET joined == {ht \in (DOMAIN st.hashtags) \X RowsOfDate(st.tweets, day) :
                      st.hashtags[ht[1]].tweet_id = st.tweets[ht[2]].tweet_id}
        groups == {st.hashtags[ht[1]].hashtag : ht \in joined}
        count == [key \in groups |->
                     Cardinality({ht \in joined : st.hashtags[ht[1]].hashtag = key})]
        ordered == OrderByCountDesc(groups, count, ties)
    IN  [k \in 1..(IF Len(ordered) < TopHashtagsLimit THEN Len(ordered)
                    ELSE TopHashtagsLimit)
            |-> [hashtag |-> ordered[k], count |-> count[ordered[k]]]]

\* get_daily_stats: COUNT(*), COUNT(DISTINCT user_id), top brands, top hashtags
DailyStats(st, date, ties) ==
    LET day == IF date = NoDate THEN DateOf(Now) ELSE date
        on == RowsOfDate(st.tweets, day)
    IN  [date         |-> day,
         total_tweets |-> Cardinality(on),
         unique_users |-> Cardinality({st.tweets[i].user_id : i \in on}),
         top_brands   |-> TopBrands(st, day, ties),
         top_hashtags |-> TopHashtags(st, day, ties)]

(***************************************************************************)
(* get_recent_tweets and get_brand_mentions.                               *)
(***************************************************************************)
\* ORDER BY created_at DESC over the rows numbered S: every order of them in
\* which created_at never rises (the engine settles the order of ties)
OrderByCreatedAtDesc(rows, S) ==
    {[k \in 1..Cardinality(S) |-> rows[p[k]]] :
        p \in {q \in [1..Cardinality(S) -> S] :
                  /\ \A i, j \in 1..Cardinality(S) : q[i] = q[j] => i = j
                  /\ \A i, j \in 1..Cardinality(S) :
                         i < j => rows[q[i]].created_at[1] >= rows[q[j]].created_at[1]}}

\* mutant: LIMIT n keeps the last n rows
Limit_tail(ordered, n) ==
    IF n < 0 THEN ordered
    ELSE SubSeq(ordered, Len(ordered) + 1 - (IF n < Len(ordered) THEN n ELSE Len(ordered)),
                Len(ordered))

\* LIMIT n of SQLite: a negative n is no limit
Limit(ordered, n) ==
    IF n < 0 THEN ordered
    ELSE SubSeq(ordered, 1, IF n < Len(ordered) THEN n ELSE Len(ordered))

\* SELECT * FROM tweets ORDER BY created_at DESC LIMIT {limit}
RecentTweets(st, limit) ==
    {Limit(ordered, limit) : ordered \in OrderByCreatedAtDesc(st.tweets, DOMAIN st.tweets)}

\* datetime('now', '-{days} days'), in hours
Since(days) == Now - days * HoursPerDay

\* created_at >= datetime('now', '-{days} days')
InWindow(ts, days) == ts >= Since(days)

\* SELECT * FROM tweets WHERE brand_mentioned = ? AND created_at >= ... ORDER BY
\* created_at DESC; a NULL never equals the parameter
BrandMentions(st, brand, days) ==
    OrderByCreatedAtDesc(st.tweets,
        {i \in DOMAIN st.tweets :
            /\ brand.type = "str"
            /\ st.tweets[i].brand_mentioned = brand
            /\ InWindow(st.tweets[i].created_at[1], days)})

(***************************************************************************)
(* The raw records a producer hands to the loader.                         *)
(***************************************************************************)
Ids == {"t1", "t2"}

\* the scalar attributes of two posts; the second arrives under the "text" key
\* and unclassified
Bodies ==
    {[text |-> NULL, content |-> "c1", user_id |-> "u1", user_name |-> "n1",
      retweet_count |-> 5, favorite_count |-> 10, reply_count |-> 2,
      sentiment_score |-> <<8>>, sentiment_category |-> "positive"],
     [text |-> "c2", content |-> "", user_id |-> "u2", user_name |-> "n2",
      retweet_count |-> 3, favorite_count |-> 15, reply_count |-> 1,
      sentiment_score |-> <<>>, sentiment_category |-> NULL]}

Body1 == CHOOSE b \in Bodies : b.content = "c1"

Tweet(id, ts, body, brand, hashtags, mentions) ==
    [tweet_id |-> id, created_at |-> ts,
     text |-> body.text, content |-> body.content,
     user_id |-> body.user_id, user_name |-> body.user_name,
     retweet_count |-> body.retweet_count, favorite_count |-> body.favorite_count,
     reply_count |-> body.reply_count,
     sentiment_score |-> body.sentiment_score,
     sentiment_category |-> body.sentiment_category,
     brand_mentioned |-> brand, hashtags |-> hashtags, mentions |-> mentions]

\* the brand, hashtags and mentions that go with a body in Records
BrandOf(body) == IF body.content = "c1" THEN Text(<<"x">>) ELSE None

HashtagsOf(body) ==
    IF body.content = "c1" THEN <<Text(<<"A">>)>> ELSE <<Text(<<"a">>), Text(<<"b">>)>>

MentionsOf(body) == IF body.content = "c1" THEN <<Text(<<"m">>), Text(<<"m">>)>> ELSE <<>>

\* records that differ in identity and body
Records ==
    {Tweet(id, <<10>>, b, BrandOf(b), HashtagsOf(b), MentionsOf(b)) :
        id \in Ids, b \in Bodies}

\* records that differ in identity and creation time: two times of day 0 and
\* one of day 1
DatedRecords ==
    {Tweet(id, ts, Body1, BrandOf(Body1), <<>>, <<>>) :
        id \in Ids, ts \in {<<10>>, <<23>>, <<34>>}}

\* records that differ in identity and brand_mentioned: absent, empty, plain,
\* padded and blank
BrandRecords ==
    {Tweet(id, <<10>>, Body1, brand, <<>>, <<>>) :
        id \in Ids,
        brand \in {None, Text(<<>>), Text(<<"x">>), Text(<<" ", "x">>), Text(<<" ">>)}}

\* the records a caller saves and saves again
ReingestRecords ==
    {Tweet(b[1], <<10>>, b[2], BrandOf(b[2]), HashtagsOf(b[2]), MentionsOf(b[2])) :
        b \in {<<"t1", Body1>>} \cup {<<id, CHOOSE x \in Bodies : x # Body1>> : id \in Ids}}

\* the entries of a hashtags or mentions list: plain, a variant in case and
\* padding, blank, empty and a number
EntityPool ==
    {Text(<<"a">>), Text(<<"A", " ">>), Text(<<" ">>), Text(<<>>), Num(<<"7">>)}

EntityLists == UNION {[1..n -> EntityPool] : n \in 0..MaxEntities}

\* records that differ in identity and in their entity lists: the same list is
\* given as hashtags and as mentions
EntityRecords ==
    {Tweet(id, <<10>>, Body1, None, l, l) : id \in Ids, l \in EntityLists}

\* records that lack a required field, and the well-formed records of their
\* tweet_ids: no created_at, no user_id, no user_name, no tweet_id
MalformedRecords ==
    {Tweet(id, <<10>>, Body1, None, <<>>, <<>>) : id \in Ids}
        \cup {Tweet("t1", <<>>, Body1, None, <<>>, <<>>),
              Tweet("t2", <<10>>, [Body1 EXCEPT !.user_id = NULL], None, <<>>, <<>>),
              Tweet("t1", <<10>>, [Body1 EXCEPT !.user_name = NULL], None, <<>>, <<>>),
              Tweet(NULL, <<10>>, Body1, None, <<>>, <<>>)}

\* a post whose raw record carries a score of 5.0 and a category of its own
BodyOutOfDomain ==
    [Body1 EXCEPT !.sentiment_score = <<50>>, !.sentiment_category = "bogus"]

\* records that differ in identity and in the sentiment values they carry:
\* classified, unclassified and out of the domain
SentimentRecords ==
    {Tweet(id, <<10>>, b, None, <<>>, <<>>) : id \in Ids, b \in Bodies \cup {BodyOutOfDomain}}

\* the entries of a mentions list: a handle, blank, empty and a number
MentionPool == {Text(<<"a">>), Text(<<" ">>), Text(<<>>), Num(<<"7">>)}

MentionLists == UNION {[1..n -> MentionPool] : n \in 0..MaxEntities}

\* records that differ in their mentions list, and one of another identity
\* that repeats a handle
MentionRecords ==
    {Tweet("t1", <<10>>, Body1, None, <<>>, l) : l \in MentionLists}
        \cup {Tweet("t2", <<10>>, Body1, None, <<>>, <<Text(<<"a">>), Text(<<"a">>)>>)}

\* records that differ in identity, brand and creation time: 30 hours and 6
\* hours before now and 10 hours after
QueryRecords ==
    {Tweet(id, ts, Body1, brand, <<>>, <<>>) :
        id \in Ids, ts \in {<<10>>, <<34>>, <<50>>},
        brand \in {Text(<<"x">>), Text(<<"y">>)}}

\* the stream of a producer: seven tweets of day 0 over six brands and twelve
\* hashtags, the seventh repeating a brand and two hashtags, and a tweet of
\* day 1
TopIds == <<"k1", "k2", "k3", "k4", "k5", "k6", "k7", "k8">>

TopBodies ==
    <<[ts |-> <<10>>, brand |-> "p", tags |-> <<"a", "b">>],
      [ts |-> <<10>>, brand |-> "q", tags |-> <<"c", "d">>],
      [ts |-> <<10>>, brand |-> "r", tags |-> <<"e", "f">>],
      [ts |-> <<10>>, brand |-> "s", tags |-> <<"g", "h">>],
      [ts |-> <<10>>, brand |-> "t", tags |-> <<"i", "j">>],
      [ts |-> <<10>>, brand |-> "u", tags |-> <<"k", "l">>],
      [ts |-> <<23>>, brand |-> "u", tags |-> <<"l", "a">>],
      [ts |-> <<34>>, brand |-> "p", tags |-> <<"a", "b">>]>>

TopRecord(n) ==
    Tweet(TopIds[n], TopBodies[n].ts, Body1, Text(<<TopBodies[n].brand>>),
          <<Text(<<TopBodies[n].tags[1]>>), Text(<<TopBodies[n].tags[2]>>)>>, <<>>)

\* the place of a stored tweet in the stream
TopIndex(id) == CHOOSE n \in DOMAIN TopIds : TopIds[n] = id

\* the values handed to analyze_sentiment as text: None, numbers, the empty
\* and the blank text, and texts over the whole range of polarities
AnalyzeTexts ==
    {None, Num(<<"7">>), Num(<<"0">>), Text(<<>>), Text(<<" ">>), Text(<<"o">>),
     Text(<<"+", "+">>), Text(<<"+">>), Text(<<" ", "+">>), Text(<<"c", "1">>),
     Text(<<"c", "2">>), Text(<<"-">>), Text(<<"-", "-">>)}

\* the values a threshold is configured with, in tenths
ThresholdLevels == {-5, -1, 1, 5}

\* the thresholds argument of SentimentAnalyzer: absent or empty, both keys,
\* or one key missing
ThresholdConfigs ==
    {<<>>} \cup [positive : ThresholdLevels, negative : ThresholdLevels]
           \cup [positive : ThresholdLevels] \cup [negative : ThresholdLevels]

\* the batches two ingestion processes race with: every single record, and two
\* batches of two records that meet on "t1"
RaceBatches ==
    {<<r>> : r \in Records}
        \cup {<<Tweet("t1", <<10>>, b, BrandOf(b), HashtagsOf(b), MentionsOf(b)),
                Tweet("t2", <<10>>, b, BrandOf(b), HashtagsOf(b), MentionsOf(b))>> :
                  b \in Bodies}

\* the batches of at most MaxBatch records of R
Batches(R) == UNION {[1..n -> R] : n \in 0..MaxBatch}

(***************************************************************************)
(* The state machine.                                                      *)
(***************************************************************************)
NoCall ==
    [op |-> "none", ret |-> 0, raised |-> FALSE, err |-> FALSE, brand_err |-> FALSE,
     saved_count |-> 0, skipped |-> 0, again |-> FALSE, args |-> <<>>]

\* the ingestion processes
Procs == {"A", "B"}

\* a process outside save_tweets
IdleWriter ==
    [pc |-> "idle", batch |-> <<>>, k |-> 0, st |-> EmptyDb, saved_count |-> 0,
     ret |-> 0, err |-> FALSE, brand_err |-> FALSE, brands |-> <<>>]

\* a process outside get_daily_stats
IdleReader ==
    [pc |-> "idle", date |-> NoDate, total_tweets |-> 0, unique_users |-> 0,
     top_brands |-> <<>>]

NoSentiment ==
    [text |-> None, thresholds |-> DefaultThresholds, failed |-> FALSE,
     result |-> InvalidResult]

Init ==
    /\ db = EmptyDb
    /\ committed = EmptyDb
    /\ last = NoCall
    /\ kept = <<>>
    /\ stats = NoStats
    /\ sentiment = NoSentiment
    /\ classifier = "unused"
    /\ df = <<>>
    /\ writer = [p \in Procs |-> IdleWriter]
    /\ lock = "none"
    /\ reader = IdleReader

\* a call of save_tweets(batch); keep says whether the caller holds on to the
\* batch afterwards
Save(batch, fault, keep) ==
    \E r \in {SaveTweetsResult(db, committed, batch, fault)} :
        /\ db' = r.db
        /\ committed' = r.committed
        /\ last' = [op |-> "save", ret |-> r.ret, raised |-> r.raised, err |-> r.err,
                    brand_err |-> r.brand_err, saved_count |-> r.saved_count,
                    skipped |-> r.skipped,
                    again |-> /\ keep
                              /\ batch # <<>>
                              /\ kept = batch
                              /\ last.op = "save"
                              /\ ~last.err
                              /\ ~last.brand_err,
                    args |-> <<>>]
        /\ kept' = IF keep THEN batch ELSE <<>>
        /\ stats' = NoStats
        /\ df' = <<>>
        /\ UNCHANGED <<sentiment, processes>>

SaveTweets(batch, fault) ==
    /\ Save(batch, fault, FALSE)
    /\ classifier' = "unused"

\* a call of save_tweets(batch) by a caller that holds on to its batch
SaveAndKeep(batch, fault) ==
    /\ Save(batch, fault, TRUE)
    /\ classifier' = "unused"

\* a call of save_tweets_with_sentiment(batch, analyze_sentiment): classify
\* unless the classifier fails, then save_tweets
SaveTweetsWithSentiment(batch, analyze_sentiment, outcome, fault) ==
    /\ Save(IF batch = <<>> THEN batch ELSE Classified(batch, analyze_sentiment, outcome),
            fault, FALSE)
    /\ classifier' = IF batch = <<>> \/ ~analyze_sentiment THEN "unused" ELSE outcome

\* mutant: the query commits the open transaction of its connection
GetDailyStats_commits(date, ties, fails) ==
    /\ stats' = IF fails THEN NoStats ELSE DailyStats(db, date, ties)
    /\ last' = [NoCall EXCEPT !.op = "daily_stats", !.err = fails]
    /\ df' = <<>>
    /\ committed' = db
    /\ UNCHANGED <<db, kept, sentiment, classifier, processes>>

\* a call of get_daily_stats(date); an exception is logged and {} returned
GetDailyStats(date, ties, fails) ==
    /\ stats' = IF fails THEN NoStats ELSE DailyStats(db, date, ties)
    /\ last' = [NoCall EXCEPT !.op = "daily_stats", !.err = fails]
    /\ df' = <<>>
    /\ UNCHANGED <<db, committed, kept, sentiment, classifier, processes>>

\* a call of get_recent_tweets(limit); an exception is logged and an empty
\* frame returned
GetRecentTweets(limit, fails) ==
    /\ df' \in IF fails THEN {<<>>} ELSE RecentTweets(db, limit)
    /\ last' = [NoCall EXCEPT !.op = "get_recent_tweets", !.err = fails, !.args = <<limit>>]
    /\ stats' = NoStats
    /\ UNCHANGED <<db, committed, kept, sentiment, classifier, processes>>

\* a call of get_brand_mentions(brand, days); an exception is logged and an
\* empty frame returned
GetBrandMentions(brand, days, fails) ==
    /\ df' \in IF fails THEN {<<>>} ELSE BrandMentions(db, brand, days)
    /\ last' = [NoCall EXCEPT !.op = "get_brand_mentions", !.err = fails,
                              !.args = <<brand, days>>]
    /\ stats' = NoStats
    /\ UNCHANGED <<db, committed, kept, sentiment, classifier, processes>>

\* a call of SentimentAnalyzer(thresholds).analyze_sentiment(text)
AnalyzeSentimentCall(text, thresholds, raises) ==
    /\ sentiment' = [text       |-> text,
                     thresholds |-> InitThresholds(thresholds),
                     failed     |-> ~InvalidText(text)
                                    /\ Fails(text, InitThresholds(thresholds), raises),
                     result     |-> AnalyzeSentiment(text, InitThresholds(thresholds), raises)]
    /\ last' = [NoCall EXCEPT !.op = "analyze_sentiment"]
    /\ stats' = NoStats
    /\ df' = <<>>
    /\ UNCHANGED <<db, committed, kept, classifier, processes>>

(***************************************************************************)
(* Processes on connections of their own.  A process reads the committed   *)
(* tables unless it holds the write lock: then it reads its own open       *)
(* transaction.  The first INSERT of a transaction takes the lock; a       *)
(* process that finds it taken waits, or gives up with "database is        *)
(* locked" when its timeout runs out.                                      *)
(***************************************************************************)
View(p) == IF lock = p THEN writer[p].st ELSE committed

\* where the loop goes after the k-th record
AfterRecord(p) == IF writer[p].k < Len(writer[p].batch) THEN "lookup" ELSE "commit"

\* save_tweets(batch) is called in process p
WriterStart(p, batch) ==
    /\ writer[p].pc = "idle"
    /\ batch # <<>>
    /\ writer' = [writer EXCEPT ![p] = [IdleWriter EXCEPT !.pc = "lookup", !.batch = batch,
                                                          !.k = 1]]
    /\ UNCHANGED <<db, committed, last, kept, stats, sentiment, classifier, df, lock, reader>>

\* the lookup of the k-th record: a stored tweet_id is skipped
WriterLookup(p) ==
    /\ writer[p].pc = "lookup"
    /\ writer' = [writer EXCEPT ![p] =
           IF TweetExists(View(p), writer[p].batch[writer[p].k].tweet_id)
           THEN [@ EXCEPT !.pc = AfterRecord(p), !.k = @ + 1]
           ELSE [@ EXCEPT !.pc = "insert"]]
    /\ UNCHANGED <<db, committed, last, kept, stats, sentiment, classifier, df, lock, reader>>

\* the except branch of save_tweets in process p: roll back, return 0
WriterFailed(p) ==
    /\ writer' = [writer EXCEPT ![p] = [@ EXCEPT !.pc = "done", !.st = EmptyDb, !.ret = 0,
                                                 !.err = TRUE]]
    /\ lock' = IF lock = p THEN "none" ELSE lock

\* the INSERT statements of the k-th record, under the write lock
WriterInsert(p) ==
    /\ writer[p].pc = "insert"
    /\ lock \in {"none", p}
    /\ IF NotNullViolation(TweetRow(writer[p].batch[writer[p].k]))
       THEN WriterFailed(p)
       ELSE /\ writer' = [writer EXCEPT ![p] =
                   [@ EXCEPT !.pc = AfterRecord(p), !.k = @ + 1,
                             !.st = InsertTweet(View(p), writer[p].batch[writer[p].k]),
                             !.saved_count = @ + 1]]
            /\ lock' = p
    /\ UNCHANGED <<db, committed, last, kept, stats, sentiment, classifier, df, reader>>

\* the INSERT of process p finds the lock taken until its timeout runs out
WriterBusy(p) ==
    /\ writer[p].pc = "insert"
    /\ lock \notin {"none", p}
    /\ WriterFailed(p)
    /\ UNCHANGED <<db, committed, last, kept, stats, sentiment, classifier, df, reader>>

\* connection.commit() of the batch
WriterCommit(p) ==
    /\ writer[p].pc = "commit"
    /\ committed' = View(p)
    /\ lock' = IF lock = p THEN "none" ELSE lock
    /\ writer' = [writer EXCEPT ![p] = [@ EXCEPT !.pc = "maintain", !.st = EmptyDb,
                                                 !.ret = writer[p].saved_count]]
    /\ UNCHANGED <<db, last, kept, stats, sentiment, classifier, df, reader>>

\* _update_brand_stats in process p: the SELECT DISTINCT
WriterMaintain(p) ==
    /\ writer[p].pc = "maintain"
    /\ writer' = [writer EXCEPT ![p] =
           [@ EXCEPT !.pc = IF DistinctBrands(View(p).tweets) = <<>>
                            THEN "done" ELSE "maintain_insert",
                     !.brands = DistinctBrands(View(p).tweets)]]
    /\ UNCHANGED <<db, committed, last, kept, stats, sentiment, classifier, df, lock, reader>>

\* the INSERT OR IGNORE statements of _update_brand_stats, under the write lock
WriterMaintainInsert(p) ==
    /\ writer[p].pc = "maintain_insert"
    /\ lock \in {"none", p}
    /\ writer' = [writer EXCEPT ![p] =
           [@ EXCEPT !.pc = "maintain_commit",
                     !.st = [View(p) EXCEPT !.brands = InsertBrands(@, writer[p].brands)]]]
    /\ lock' = p
    /\ UNCHANGED <<db, committed, last, kept, stats, sentiment, classifier, df, reader>>

\* the INSERT of the maintenance finds the lock taken until its timeout runs
\* out: "database is locked" is logged and swallowed
WriterMaintainBusy(p) ==
    /\ writer[p].pc = "maintain_insert"
    /\ lock \notin {"none", p}
    /\ writer' = [writer EXCEPT ![p] = [@ EXCEPT !.pc = "done", !.brand_err = TRUE]]
    /\ UNCHANGED <<db, committed, last, kept, stats, sentiment, classifier, df, lock, reader>>

\* connection.commit() of _update_brand_stats
WriterMaintainCommit(p) ==
    /\ writer[p].pc = "maintain_commit"
    /\ committed' = View(p)
    /\ lock' = "none"
    /\ writer' = [writer EXCEPT ![p] = [@ EXCEPT !.pc = "done", !.st = EmptyDb]]
    /\ UNCHANGED <<db, last, kept, stats, sentiment, classifier, df, reader>>

\* the steps of save_tweets in process p
Writer(p) ==
    \/ \E batch \in RaceBatches : WriterStart(p, batch)
    \/ WriterLookup(p)
    \/ WriterInsert(p)
    \/ WriterBusy(p)
    \/ WriterCommit(p)
    \/ WriterMaintain(p)
    \/ WriterMaintainInsert(p)
    \/ WriterMaintainBusy(p)
    \/ WriterMaintainCommit(p)

\* get_daily_stats(date) is called in a process of its own: the first SELECT,
\* on the tables committed at that moment
ReaderTotals(date, ties) ==
    /\ reader.pc = "idle"
    /\ reader' = [pc           |-> "brands",
                  date         |-> DailyStats(committed, date, ties).date,
                  total_tweets |-> DailyStats(committed, date, ties).total_tweets,
                  unique_users |-> DailyStats(committed, date, ties).unique_users,
                  top_brands   |-> <<>>]
    /\ UNCHANGED <<db, committed, last, kept, stats, sentiment, classifier, df, writer, lock>>

\* the second SELECT, on the tables committed at that moment
ReaderBrands(ties) ==
    /\ reader.pc = "brands"
    /\ reader' = [reader EXCEPT !.pc = "hashtags",
                                !.top_brands = TopBrands(committed, reader.date, ties)]
    /\ UNCHANGED <<db, committed, last, kept, stats, sentiment, classifier, df, writer, lock>>

\* the third SELECT, on the tables committed at that moment, and the return
ReaderHashtags(ties) ==
    /\ reader.pc = "hashtags"
    /\ reader' = [reader EXCEPT !.pc = "done"]
    /\ stats' = [date         |-> reader.date,
                 total_tweets |-> reader.total_tweets,
                 unique_users |-> reader.unique_users,
                 top_brands   |-> reader.top_brands,
                 top_hashtags |-> TopHashtags(committed, reader.date, ties)]
    /\ last' = [NoCall EXCEPT !.op = "daily_stats"]
    /\ UNCHANGED <<db, committed, kept, sentiment, classifier, df, writer, lock>>

\* a SELECT of get_daily_stats raises: the exception is logged and {} returned
ReaderFailed ==
    /\ reader.pc \in {"idle", "brands", "hashtags"}
    /\ reader' = [reader EXCEPT !.pc = "done"]
    /\ stats' = NoStats
    /\ last' = [NoCall EXCEPT !.op = "daily_stats", !.err = TRUE]
    /\ UNCHANGED <<db, committed, kept, sentiment, classifier, df, writer, lock>>

\* the steps of get_daily_stats in the reading process
Reader ==
    \/ \E date \in {NoDate, 0} : \E ties \in {"asc", "desc"} : ReaderTotals(date, ties)
    \/ \E ties \in {"asc", "desc"} : ReaderBrands(ties)
    \/ \E ties \in {"asc", "desc"} : ReaderHashtags(ties)
    \/ ReaderFailed

Next ==
    \/ \E batch \in Batches(Records) : \E fault \in Faults(batch) : SaveTweets(batch, fault)
    \/ \E r \in Records : \E fault \in {NoFault, <<"commit", 0>>} :
           \E analyze_sentiment \in BOOLEAN : \E outcome \in {"ok", "raises", "import_error", "error"} :
               SaveTweetsWithSentiment(<<r>>, analyze_sentiment, outcome, fault)

Spec == Init /\ [][Next]_vars

NextReingest ==
    \E batch \in Batches(ReingestRecords) : \E fault \in Faults(batch) :
        SaveAndKeep(batch, fault)

SpecReingest == Init /\ [][NextReingest]_vars

NextBrands ==
    \E batch \in Batches(BrandRecords) : \E fault \in Faults(batch) : SaveTweets(batch, fault)

SpecBrands == Init /\ [][NextBrands]_vars

NextEntities == \E r \in EntityRecords : SaveTweets(<<r>>, NoFault)

SpecEntities == Init /\ [][NextEntities]_vars

NextStats ==
    \/ \E batch \in Batches(DatedRecords) : \E fault \in {NoFault, <<"commit", 0>>} :
           SaveTweets(batch, fault)
    \/ \E date \in {NoDate, 0, 1, 2} : \E fails \in BOOLEAN :
           \E ties \in {"asc", "desc"} : GetDailyStats(date, ties, fails)

SpecStats == Init /\ [][NextStats]_vars

\* the producer's stream saved in order, any tweet of it left out
NextTopK ==
    \/ \E n \in DOMAIN TopIds :
           /\ \A i \in DOMAIN db.tweets : TopIndex(db.tweets[i].tweet_id) < n
           /\ SaveTweets(<<TopRecord(n)>>, NoFault)
    \/ \E date \in {NoDate, 0} : \E fails \in BOOLEAN :
           \E ties \in {"asc", "desc"} : GetDailyStats(date, ties, fails)

SpecTopK == Init /\ [][NextTopK]_vars

NextWriters == \E p \in Procs : Writer(p)

SpecWriters == Init /\ [][NextWriters]_vars

NextSnapshot ==
    \/ \E p \in Procs : Writer(p)
    \/ Reader

SpecSnapshot == Init /\ [][NextSnapshot]_vars

NextQueries ==
    \/ \E r \in QueryRecords : SaveTweets(<<r>>, NoFault)
    \/ \E limit \in {-1, 0, 1, 2, 3} : \E fails \in BOOLEAN : GetRecentTweets(limit, fails)
    \/ \E brand \in {None, Text(<<"x">>), Text(<<"y">>)} : \E days \in 0..2 :
           \E fails \in BOOLEAN : GetBrandMentions(brand, days, fails)

SpecQueries == Init /\ [][NextQueries]_vars

NextReadOnly ==
    \/ \E r \in Records : \E fault \in {NoFault, <<"brand_commit", 0>>} :
           SaveTweets(<<r>>, fault)
    \/ \E limit \in {-1, 1} : \E fails \in BOOLEAN : GetRecentTweets(limit, fails)
    \/ \E brand \in {None, Text(<<"x">>)} : \E fails \in BOOLEAN :
           GetBrandMentions(brand, 2, fails)
    \/ \E date \in {NoDate, 0} : \E fails \in BOOLEAN : GetDailyStats(date, "asc", fails)

SpecReadOnly == Init /\ [][NextReadOnly]_vars

NextMentions == \E r \in MentionRecords : SaveAndKeep(<<r>>, NoFault)

SpecMentions == Init /\ [][NextMentions]_vars

NextSentiment ==
    \/ \E r \in SentimentRecords : SaveTweets(<<r>>, NoFault)
    \/ \E r \in SentimentRecords : \E analyze_sentiment \in BOOLEAN :
           \E outcome \in {"ok", "raises", "import_error", "error"} :
               SaveTweetsWithSentiment(<<r>>, analyze_sentiment, outcome, NoFault)

SpecSentiment == Init /\ [][NextSentiment]_vars

NextMalformed == \E batch \in Batches(MalformedRecords) : SaveAndKeep(batch, NoFault)

SpecMalformed == Init /\ [][NextMalformed]_vars

NextClassifier ==
    \E text \in AnalyzeTexts : \E thresholds \in ThresholdConfigs : \E raises \in BOOLEAN :
        AnalyzeSentimentCall(text, thresholds, raises)

SpecClassifier == Init /\ [][NextClassifier]_vars

(***************************************************************************)
(* Properties.                                                             *)
(***************************************************************************)
IsSaveCall(l) == l.op = "save"

ItemRows(st, id) == SelectSeq(st.tweets, LAMBDA r : r.tweet_id = id)

TagRows(st, id) == SelectSeq(st.hashtags, LAMBDA r : r.tweet_id = id)

MentionRows(st, id) == SelectSeq(st.mentions, LAMBDA r : r.tweet_id = id)

UniqueTweetIds(rows) ==
    \A i, j \in 1..Len(rows) : rows[i].tweet_id = rows[j].tweet_id => i = j

\* C2: tweets never holds two rows with the same tweet_id, neither as the
\* connection sees it nor as committed, whatever sequence of save_tweets and
\* save_tweets_with_sentiment calls, failed ones included, led there.
C2_IdentityUnique == UniqueTweetIds(db.tweets) /\ UniqueTweetIds(committed.tweets)

\* a batch that held a stored tweet_id and a new one was saved
C2_Witness ==
    /\ IsSaveCall(last) /\ ~last.err
    /\ last.skipped >= 1 /\ last.saved_count >= 1
    /\ Len(committed.tweets) = 2

\* the first record of the batch with the given tweet_id
FirstWith(batch, id) ==
    batch[CHOOSE k \in 1..Len(batch) :
              /\ batch[k].tweet_id = id
              /\ \A j \in 1..(k - 1) : batch[j].tweet_id # id]

\* C3: a save leaves the tweets row, the hashtags rows and the mentions rows
\* of every tweet_id of its batch that was stored before the call as they
\* were; a tweet_id that was not stored gets the row of its first record in
\* the batch.  (kept' is the batch of the call.)
C3_FirstWriteWins ==
    [][IsSaveCall(last') =>
        \A k \in 1..Len(kept') :
            LET id == kept'[k].tweet_id
            IN  /\ TweetExists(db, id) =>
                      /\ ItemRows(db', id) = ItemRows(db, id)
                      /\ TagRows(db', id) = TagRows(db, id)
                      /\ MentionRows(db', id) = MentionRows(db, id)
                /\ (~TweetExists(db, id) /\ ~last'.err) =>
                      ItemRows(db', id) = <<TweetRow(FirstWith(kept', id))>>]_vars

\* every record of the batch was skipped, and one of them carried other values
\* than the stored row
C3_Witness ==
    /\ IsSaveCall(last) /\ ~last.err
    /\ last.saved_count = 0 /\ last.skipped >= 1
    /\ \E k \in 1..Len(kept) :
           /\ ItemRows(db, kept[k].tweet_id) # <<TweetRow(kept[k])>>
           /\ TagRows(db, kept[k].tweet_id)
                  # SaveHashtags(<<>>, kept[k].tweet_id, kept[k].hashtags)

\* C4: the value returned by a save that did not fail is the number of rows
\* the call added to tweets.
C4_ReturnCountsInserted ==
    [][(IsSaveCall(last') /\ ~last'.err) =>
        /\ last'.ret = Len(db'.tweets) - Len(db.tweets)
        /\ last'.ret = Len(committed'.tweets) - Len(committed.tweets)]_vars

\* a save inserted some records and skipped others
C4_Witness ==
    /\ IsSaveCall(last) /\ ~last.err
    /\ last.ret >= 1 /\ last.skipped >= 1

\* C5: a save that fails returns 0, leaves the committed tables as they were
\* and leaves no row of its batch in the open transaction.
C5_AtomicBatchFailure ==
    [][(IsSaveCall(last') /\ last'.err) =>
        /\ last'.ret = 0
        /\ committed' = committed
        /\ db' = committed]_vars

\* a save failed after it had inserted at least one record
C5_Witness == IsSaveCall(last) /\ last.err /\ last.saved_count >= 1

\* what the caller of save_tweets gets: the returned count, and whether an
\* exception reached it
CallerSees(l) == [ret |-> l.ret, raised |-> l.raised]

AllDuplicatesOutcome == [ret |-> 0, raised |-> FALSE]

UniqueTags(rows) ==
    \A i, j \in 1..Len(rows) :
        (/\ rows[i].tweet_id = rows[j].tweet_id
         /\ Strip(Lower(rows[i].hashtag)) = Strip(Lower(rows[j].hashtag))) => i = j

\* C7: hashtags never holds two rows of one tweet_id whose texts are equal
\* after lowercasing and trimming.
C7_TagUnique == UniqueTags(db.hashtags) /\ UniqueTags(committed.hashtags)

\* a stored item whose list named "a" and "A " (both kept as mentions) has
\* the single hashtag row "a"
C7_Witness ==
    \E id \in Ids :
        /\ \E i, j \in 1..Len(MentionRows(db, id)) :
               /\ MentionRows(db, id)[i].mentioned_user = <<"a">>
               /\ MentionRows(db, id)[j].mentioned_user = <<"A">>
        /\ TagRows(db, id) = <<[tweet_id |-> id, hashtag |-> <<"a">>]>>

\* C8, as claimed: no hashtags row and no mentions row holds an empty text.
C8_NoEmptyEntity ==
    /\ \A i \in 1..Len(db.hashtags) : db.hashtags[i].hashtag # <<>>
    /\ \A i \in 1..Len(db.mentions) : db.mentions[i].mentioned_user # <<>>

\* C9, as claimed: after a save that returned without any error, every
\* non-empty brand_mentioned of a stored tweet is the name of a brands row.
C9_BrandRegistryComplete ==
    (IsSaveCall(last) /\ ~last.err /\ ~last.brand_err) =>
        \A i \in 1..Len(db.tweets) :
            LET b == db.tweets[i].brand_mentioned
            IN  (b.type = "str" /\ b.val # <<>>) =>
                    \E j \in 1..Len(db.brands) : db.brands[j].name = b.val

\* created_at falls on calendar day d
FallsOn(ts, d) == d * HoursPerDay <= ts /\ ts < (d + 1) * HoursPerDay

\* C10: the total_tweets of a returned daily statistics is the number of
\* stored tweets whose created_at falls on its date.
C10_DailyTotal ==
    stats.date # NoDate =>
        stats.total_tweets =
            Cardinality({i \in 1..Len(db.tweets) :
                            FallsOn(db.tweets[i].created_at[1], stats.date)})

\* statistics of day 0 were returned while one tweet of the last hour of day 0
\* and one tweet of day 1 are stored
C10_Witness ==
    /\ stats.date = 0 /\ stats.total_tweets = 1
    /\ Len(db.tweets) = 2
    /\ \E i, j \in 1..Len(db.tweets) :
           db.tweets[i].created_at = <<23>> /\ db.tweets[j].created_at = <<34>>

(***************************************************************************)
(* Properties of the classifier.                                           *)
(***************************************************************************)
IsAnalyzeCall == last.op = "analyze_sentiment"

\* the text handed to analyze_sentiment was empty or not a text
EmptyOrNonText == sentiment.text.type # "str" \/ sentiment.text.val = <<>>

\* the result was computed from a polarity: the text was valid and nothing raised
IsScored == IsAnalyzeCall /\ ~EmptyOrNonText /\ ~sentiment.failed

\* both thresholds are configured
HasThresholdPair == DOMAIN sentiment.thresholds = {"positive", "negative"}

\* C11: classifying any input yields a sentiment_score within [-1.0, 1.0]
\* (-10..10 in tenths); for every empty or non-text input the result is exactly
\* category neutral with score 0.0.
C11_SentimentRange ==
    IsAnalyzeCall =>
        /\ sentiment.result.sentiment_score \in -10..10
        /\ EmptyOrNonText =>
               /\ sentiment.result.sentiment_category = "neutral"
               /\ sentiment.result.sentiment_score = 0

C11_Witness ==
    /\ IsAnalyzeCall
    /\ sentiment.text = Num(<<"7">>)
    /\ sentiment.result.sentiment_category = "neutral"
    /\ sentiment.result.sentiment_score = 0

\* the category the two thresholds of the call give to its score
ByThresholds ==
    IF sentiment.result.sentiment_score > sentiment.thresholds.positive THEN "positive"
    ELSE IF sentiment.result.sentiment_score < sentiment.thresholds.negative THEN "negative"
    ELSE "neutral"

OnThreshold ==
    \/ sentiment.result.sentiment_score = sentiment.thresholds.positive
    \/ sentiment.result.sentiment_score = sentiment.thresholds.negative

\* C12 as stated: for every score and every configured threshold pair the
\* category is positive iff score > positive_threshold, otherwise negative iff
\* score < negative_threshold, otherwise neutral, and a score equal to either
\* threshold is neutral.
C12_OnThresholdIsNeutral ==
    (IsScored /\ HasThresholdPair) =>
        /\ sentiment.result.sentiment_category = ByThresholds
        /\ OnThreshold => sentiment.result.sentiment_category = "neutral"

\* C12: for every score computed from a text and every configured threshold
\* pair the category is positive iff score > positive_threshold, otherwise
\* negative iff score < negative_threshold, otherwise neutral; a score equal to
\* either threshold is neutral when negative_threshold <= positive_threshold,
\* and with negative_threshold > positive_threshold a score equal to the
\* negative threshold is positive and one equal to the positive threshold is
\* negative.
C12_ThresholdCategory ==
    (IsScored /\ HasThresholdPair) =>
        LET score == sentiment.result.sentiment_score
            category == sentiment.result.sentiment_category
            positive == sentiment.thresholds.positive
            negative == sentiment.thresholds.negative
        IN  /\ category = ByThresholds
            /\ (negative <= positive /\ OnThreshold) => category = "neutral"
            /\ (negative > positive /\ score = negative) => category = "positive"
            /\ (negative > positive /\ score = positive) => category = "negative"

C12_Witness ==
    /\ IsScored
    /\ HasThresholdPair
    /\ sentiment.thresholds.negative < sentiment.thresholds.positive
    /\ sentiment.result.sentiment_score = sentiment.thresholds.positive
    /\ sentiment.result.sentiment_category = "neutral"

\* the confidence the formula gives to the score and category of the result
ByFormula ==
    LET score == sentiment.result.sentiment_score
        abs == IF score < 0 THEN 0 - score ELSE score
    IN  IF sentiment.result.sentiment_category = "neutral" THEN 10 - abs ELSE abs

\* C13 as stated: for every classifier result, the results for empty or
\* non-text input and for internal failure included, confidence is abs(score)
\* when the category is positive or negative and 1 - abs(score) when neutral.
C13_ConfidenceEverywhere ==
    IsAnalyzeCall => sentiment.result.confidence = ByFormula

\* C13: for every result computed from a score, confidence is abs(score) when
\* the category is positive or negative and 1 - abs(score) when it is neutral;
\* the results for empty or non-text input and for internal failure are
\* neutral with score 0.0 and confidence 0.0.
C13_Confidence ==
    IsAnalyzeCall =>
        IF IsScored
        THEN sentiment.result.confidence = ByFormula
        ELSE /\ sentiment.result.sentiment_category = "neutral"
             /\ sentiment.result.sentiment_score = 0
             /\ sentiment.result.confidence = 0

C13_Witness ==
    /\ IsAnalyzeCall
    /\ sentiment.failed
    /\ sentiment.result.sentiment_category = "neutral"
    /\ sentiment.result.confidence = 0

ClassifierFailed(c) == c \in {"import_error", "error"}

\* C15: when save_tweets_with_sentiment is called with analyze_sentiment true
\* and the classifier cannot be imported or raises, the step is the step
\* save_tweets takes on the same batch with its original records: the same
\* rows, the same commit or rollback, the same return value.
C15_ClassifierFailureSavesOriginal ==
    [][ClassifierFailed(classifier') =>
        \A r \in Records : \A fault \in {NoFault, <<"commit", 0>>} :
            \A outcome \in {"import_error", "error"} :
                SaveTweetsWithSentiment(<<r>>, TRUE, outcome, fault)
                    => Save(<<r>>, fault, FALSE)]_vars

\* an unclassified record went in unclassified although classification was
\* asked for: the classifier had failed
C15_Witness ==
    /\ ClassifierFailed(classifier)
    /\ IsSaveCall(last)
    /\ last.ret = 1
    /\ \E i \in 1..Len(committed.tweets) :
           /\ committed.tweets[i].content = "c2"
           /\ committed.tweets[i].sentiment_category = NULL

(***************************************************************************)
(* Properties of the queries.                                              *)
(***************************************************************************)
\* the rows of a frame, as a set
FrameRows(frame) == {frame[k] : k \in 1..Len(frame)}

\* the frame never rises in created_at
Descending(frame) ==
    \A i, j \in 1..Len(frame) : i < j => frame[i].created_at[1] >= frame[j].created_at[1]

\* C16: get_brand_mentions(name, days) returns exactly the stored tweets with
\* brand_mentioned = name whose created_at lies in [now - days, now], ordered by
\* created_at descending; a tweet created later than now is not returned.
C16_WindowClosedAtNow ==
    (last.op = "get_brand_mentions" /\ ~last.err) =>
        /\ FrameRows(df) =
               {db.tweets[i] : i \in
                   {j \in DOMAIN db.tweets :
                       /\ db.tweets[j].brand_mentioned = last.args[1]
                       /\ db.tweets[j].created_at[1] >= Now - last.args[2] * HoursPerDay
                       /\ db.tweets[j].created_at[1] <= Now}}
        /\ Descending(df)

\* C17 as stated: get_recent_tweets(limit) returns at most limit tweets for
\* every integer limit; they are the tweets with the greatest created_at in the store, and
\* they are ordered by created_at descending.
C17_AtMostLimit ==
    (last.op = "get_recent_tweets" /\ ~last.err) =>
        /\ Len(df) <= last.args[1]
        /\ FrameRows(df) \subseteq FrameRows(db.tweets)
        /\ \A i \in DOMAIN db.tweets :
               db.tweets[i] \notin FrameRows(df) =>
                   \A k \in 1..Len(df) : df[k].created_at[1] >= db.tweets[i].created_at[1]
        /\ Descending(df)

\* no tweet left out of the frame is newer than a tweet in it
GreatestCreatedAt(frame, rows) ==
    \A i \in DOMAIN rows :
        rows[i] \notin FrameRows(frame) =>
            \A k \in 1..Len(frame) : frame[k].created_at[1] >= rows[i].created_at[1]

\* C17: get_recent_tweets(limit) returns min(limit, stored) tweets for every
\* limit >= 0 and every stored tweet for a negative limit; the tweets returned
\* are the ones with the greatest created_at in the store, ordered by
\* created_at descending.
C17_RecentTweets ==
    (last.op = "get_recent_tweets" /\ ~last.err) =>
        /\ Len(df) = IF last.args[1] < 0 \/ last.args[1] > Len(db.tweets)
                     THEN Len(db.tweets) ELSE last.args[1]
        /\ Cardinality(FrameRows(df)) = Len(df)
        /\ FrameRows(df) \subseteq FrameRows(db.tweets)
        /\ GreatestCreatedAt(df, db.tweets)
        /\ Descending(df)

\* of two stored tweets the older one was inserted last, and limit 1 returns
\* the newer one
C17_Witness ==
    /\ last.op = "get_recent_tweets"
    /\ ~last.err
    /\ last.args = <<1>>
    /\ Len(db.tweets) = 2
    /\ db.tweets[1].created_at[1] > db.tweets[2].created_at[1]
    /\ df = <<db.tweets[1]>>

(***************************************************************************)
(* Properties of the top lists of get_daily_stats.                         *)
(***************************************************************************)
\* the stored tweets dated on the day of the statistics
Dated == {i \in DOMAIN db.tweets : db.tweets[i].created_at[1] \div HoursPerDay = stats.date}

\* the number of tweets of the day with the brand
Mentions(brand) ==
    Cardinality({i \in Dated : db.tweets[i].brand_mentioned = Text(brand)})

\* the number of tweets of the day that carry the hashtag
Usage(hashtag) ==
    Cardinality({i \in Dated :
        \E h \in DOMAIN db.hashtags :
            /\ db.hashtags[h].tweet_id = db.tweets[i].tweet_id
            /\ db.hashtags[h].hashtag = hashtag})

\* the non-empty brands and the hashtags of the tweets of the day
BrandsOfDay ==
    {db.tweets[i].brand_mentioned.val : i \in
        {j \in Dated : /\ db.tweets[j].brand_mentioned.type = "str"
                       /\ db.tweets[j].brand_mentioned.val # <<>>}}

HashtagsOfDay == {db.hashtags[h].hashtag : h \in {g \in DOMAIN db.hashtags : Usage(db.hashtags[g].hashtag) > 0}}

\* C18: top_brands holds at most 5 entries and top_hashtags at most 10, each
\* sorted by descending count; each brand count is the number of tweets of the
\* day with that brand, each hashtag count the number of tweets of the day that
\* carry the hashtag, and no brand or hashtag left out has a strictly greater
\* count than one that is included.
C18_TopK ==
    (last.op = "daily_stats" /\ ~last.err) =>
        LET brands == stats.top_brands
            tags == stats.top_hashtags
        IN  /\ Len(brands) <= 5
            /\ Len(tags) <= 10
            /\ \A i, j \in DOMAIN brands : i < j => brands[i].mentions >= brands[j].mentions
            /\ \A i, j \in DOMAIN tags : i < j => tags[i].count >= tags[j].count
            /\ \A k \in DOMAIN brands :
                   /\ brands[k].brand \in BrandsOfDay
                   /\ brands[k].mentions = Mentions(brands[k].brand)
            /\ \A k \in DOMAIN tags :
                   /\ tags[k].hashtag \in HashtagsOfDay
                   /\ tags[k].count = Usage(tags[k].hashtag)
            /\ \A b \in BrandsOfDay \ {brands[k].brand : k \in DOMAIN brands} :
                   \A k \in DOMAIN brands : Mentions(b) <= brands[k].mentions
            /\ \A t \in HashtagsOfDay \ {tags[k].hashtag : k \in DOMAIN tags} :
                   \A k \in DOMAIN tags : Usage(t) <= tags[k].count

\* six brands and twelve hashtags on the day: one brand and two hashtags are
\* left out, and the brand mentioned twice leads
C18_Witness ==
    /\ last.op = "daily_stats"
    /\ ~last.err
    /\ stats.date = 0
    /\ Cardinality(BrandsOfDay) = 6
    /\ Cardinality(HashtagsOfDay) = 12
    /\ Len(stats.top_brands) = 5
    /\ Len(stats.top_hashtags) = 10
    /\ stats.top_brands[1] = [brand |-> <<"u">>, mentions |-> 2]
    /\ stats.top_hashtags[3].count = 1

(***************************************************************************)
(* Properties of save_tweets, continued.                                   *)
(***************************************************************************)
\* the tweet_ids of a batch that were not stored before the call
NewIds(batch, st) ==
    {batch[k].tweet_id : k \in 1..Len(batch)} \ {st.tweets[i].tweet_id : i \in DOMAIN st.tweets}

\* C19: a batch that repeats a tweet_id is not an error: when no storage call
\* fails, the save does not fail, the first record of each tweet_id that was
\* not stored is inserted, every later record with it is skipped, and the value
\* returned is the number of distinct tweet_ids of the batch that were not
\* stored before.
C19_DuplicatesInBatch ==
    [][(IsSaveCall(last') /\ SaveAndKeep(kept', NoFault)) =>
        /\ ~last'.err
        /\ ~last'.raised
        /\ last'.ret = Cardinality(NewIds(kept', db))
        /\ last'.skipped = Len(kept') - Cardinality(NewIds(kept', db))
        /\ \A id \in NewIds(kept', db) :
               ItemRows(db', id) = <<TweetRow(FirstWith(kept', id))>>]_vars

\* a batch of two different records with one tweet_id: the first was
\* inserted, the second skipped
C19_Witness ==
    /\ IsSaveCall(last)
    /\ ~last.err
    /\ Len(kept) = 2
    /\ kept[1].tweet_id = kept[2].tweet_id
    /\ TweetRow(kept[1]) # TweetRow(kept[2])
    /\ last.ret = 1
    /\ last.skipped = 1
    /\ ItemRows(db, kept[1].tweet_id) = <<TweetRow(kept[1])>>

\* every row of before is still there in after, unchanged and in its place
IsPrefix(before, after) ==
    /\ Len(before) <= Len(after)
    /\ \A i \in 1..Len(before) : after[i] = before[i]

\* C20: over any sequence of calls the committed rows of tweets, hashtags,
\* mentions and brands only grow: no call removes or rewrites a committed row.
C20_AppendOnly ==
    [][/\ IsPrefix(committed.tweets, committed'.tweets)
       /\ IsPrefix(committed.hashtags, committed'.hashtags)
       /\ IsPrefix(committed.mentions, committed'.mentions)
       /\ IsPrefix(committed.brands, committed'.brands)]_vars

\* all four tables hold committed rows, and the last call was a save handed
\* stored tweet_ids again or a save that failed
C20_Witness ==
    /\ IsSaveCall(last)
    /\ last.err \/ last.skipped = 2
    /\ Len(committed.tweets) = 2
    /\ committed.hashtags # <<>>
    /\ committed.mentions # <<>>
    /\ committed.brands # <<>>

\* the sentiment columns of the rows of tweets with the tweet_id
SentimentOf(st, id) ==
    [i \in DOMAIN ItemRows(st, id) |->
        <<ItemRows(st, id)[i].sentiment_score, ItemRows(st, id)[i].sentiment_category>>]

\* C21: the sentiment_score and sentiment_category of a stored tweet are the
\* ones it was inserted with: no later call changes them, neither a save nor a
\* save_tweets_with_sentiment that is handed the tweet_id again, classified or
\* not.
C21_MonotoneClassification ==
    [][\A i \in DOMAIN db.tweets :
          /\ SentimentOf(db', db.tweets[i].tweet_id) = SentimentOf(db, db.tweets[i].tweet_id)
          /\ SentimentOf(committed', db.tweets[i].tweet_id)
                 = SentimentOf(committed, db.tweets[i].tweet_id)]_vars

\* a tweet stored unclassified was handed to save_tweets_with_sentiment, the
\* classifier ran, and the tweet is still unclassified
C21_Witness ==
    /\ IsSaveCall(last)
    /\ classifier = "ok"
    /\ last.skipped = 1
    /\ Len(committed.tweets) = 1
    /\ committed.tweets[1].sentiment_category = NULL
    /\ committed.tweets[1].sentiment_score = <<>>

(***************************************************************************)
(* C22.  Two ingestion processes save batches that share a tweet_id: under *)
(* every interleaving of their lookups, inserts and commits, the committed *)
(* tables and the tables each process sees in its open transaction hold at *)
(* most one tweets row per tweet_id and at most one hashtags row per       *)
(* (tweet_id, hashtag) pair.                                               *)
(***************************************************************************)
C22_ConcurrentWriters ==
    /\ UniqueTweetIds(committed.tweets) /\ UniqueTags(committed.hashtags)
    /\ \A p \in Procs : UniqueTweetIds(View(p).tweets) /\ UniqueTags(View(p).hashtags)

\* both processes looked the shared tweet_id up before either committed it,
\* and both inserted it
C22_Witness ==
    /\ \A p \in Procs : writer[p].pc = "done" /\ ~writer[p].err /\ writer[p].ret = 1
    /\ Len(writer["A"].batch) = 1 /\ Len(writer["B"].batch) = 1
    /\ writer["A"].batch[1].tweet_id = writer["B"].batch[1].tweet_id
    /\ Len(committed.tweets) = 1

\* the sum of the mentions of the top brands of a result
RECURSIVE SumMentions(_)
SumMentions(top_brands) ==
    IF top_brands = <<>> THEN 0
    ELSE Head(top_brands).mentions + SumMentions(Tail(top_brands))

(***************************************************************************)
(* C23.  A get_daily_stats call that returns its result, with saves of     *)
(* other processes committing while it runs, computes its parts from one   *)
(* committed state: the mentions of its top brands sum to at most its      *)
(* total_tweets.                                                           *)
(***************************************************************************)
C23_SnapshotConsistent ==
    (reader.pc = "done" /\ ~last.err) => SumMentions(stats.top_brands) <= stats.total_tweets

IsQuery(l) == l.op \in {"get_recent_tweets", "get_brand_mentions", "daily_stats"}

C25_NoPendingWrite ==
    IsSaveCall(last) =>
        /\ db = committed
        /\ last.err => last.ret = 0

\* the number of non-empty text entries of a list
RECURSIVE CountNonEmptyText(_)
CountNonEmptyText(list) ==
    IF list = <<>> THEN 0
    ELSE (IF Head(list).type = "str" /\ Len(Head(list).val) > 0 THEN 1 ELSE 0)
             + CountNonEmptyText(Tail(list))

(***************************************************************************)
(* C26.  A save that inserts a record adds as many mentions rows, all with *)
(* its tweet_id, as its mentions list has non-empty text entries, repeated *)
(* handles counted each time; a save of a record whose tweet_id is stored  *)
(* adds no mentions row.                                                   *)
(***************************************************************************)
C26_MentionsMultiset ==
    [][(IsSaveCall(last') /\ Len(kept') = 1) =>
          IF ~TweetExists(db, kept'[1].tweet_id) /\ TweetExists(db', kept'[1].tweet_id)
          THEN /\ Len(db'.mentions)
                     = Len(db.mentions) + CountNonEmptyText(kept'[1].mentions)
               /\ Len(MentionRows(db', kept'[1].tweet_id))
                     = CountNonEmptyText(kept'[1].mentions)
               /\ committed'.mentions = db'.mentions
          ELSE /\ TweetExists(db, kept'[1].tweet_id)
               /\ db'.mentions = db.mentions
               /\ committed'.mentions = committed.mentions]_vars

\* a record that repeats a handle was inserted after another tweet, and a
\* save of its tweet_id followed
C26_Witness ==
    /\ IsSaveCall(last) /\ last.ret = 0 /\ ~last.err
    /\ Len(kept) = 1 /\ kept[1].tweet_id = "t1"
    /\ Len(db.tweets) = 2 /\ db.tweets[2].tweet_id = "t1"
    /\ Len(MentionRows(db, "t1")) = 2
    /\ MentionRows(db, "t1")[1] = MentionRows(db, "t1")[2]

\* sentiment_category is positive, negative, neutral or null, and
\* sentiment_score is null or in [-1.0, 1.0]
InSentimentDomain(row) ==
    /\ row.sentiment_category \in {"positive", "negative", "neutral", NULL}
    /\ \/ row.sentiment_score = <<>>
       \/ row.sentiment_score[1] \in -10..10

(***************************************************************************)
(* C27.  Every stored tweet has its sentiment_category and its             *)
(* sentiment_score in the domain, whichever of save_tweets and             *)
(* save_tweets_with_sentiment inserted it and whatever sentiment values    *)
(* the raw record carried.                                                 *)
(***************************************************************************)
C27_StoredSentimentDomain ==
    /\ \A i \in 1..Len(db.tweets) : InSentimentDomain(db.tweets[i])
    /\ \A i \in 1..Len(committed.tweets) : InSentimentDomain(committed.tweets[i])

\* every hashtags row and every mentions row of st carries the tweet_id of a
\* tweets row of st
NoOrphans(st) ==
    /\ \A i \in 1..Len(st.hashtags) : ItemRows(st, st.hashtags[i].tweet_id) # <<>>
    /\ \A i \in 1..Len(st.mentions) : ItemRows(st, st.mentions[i].tweet_id) # <<>>

(***************************************************************************)
(* C28.  After any sequence of saves, failed ones included, every hashtags *)
(* row and every mentions row carries the tweet_id of a stored tweet, in   *)
(* the committed tables and in the tables the connection sees.             *)
(***************************************************************************)
C28_ReferentialIntegrity == NoOrphans(committed) /\ NoOrphans(db)

\* a save failed after it had inserted a record with entities, on a store
\* that holds entity rows
C28_Witness ==
    /\ IsSaveCall(last) /\ last.err /\ last.saved_count >= 1
    /\ committed.hashtags # <<>>
    /\ committed.mentions # <<>>
    /\ Len(committed.tweets) = 1

\* the record lacks tweet_id, created_at, user_id or user_name
LacksRequiredField(r) ==
    r.tweet_id = NULL \/ r.created_at = <<>> \/ r.user_id = NULL \/ r.user_name = NULL

\* the k-th record of the batch is the first of its tweet_id in the batch, and
\* its tweet_id is not stored
IsNewAt(batch, k, st) ==
    /\ ~TweetExists(st, batch[k].tweet_id)
    /\ \A j \in 1..(k - 1) : batch[j].tweet_id # batch[k].tweet_id

\* C29, as claimed: a save of a batch with a record that lacks a required
\* field returns 0 and stores none of the batch's records.
C29_AnyMalformedPoisons ==
    [][(/\ IsSaveCall(last')
        /\ \E k \in 1..Len(kept') : LacksRequiredField(kept'[k]))
       => last'.ret = 0 /\ db' = db /\ committed' = committed]_vars

(***************************************************************************)
(* C29.  A save of a batch with a record that lacks a required field and   *)
(* whose tweet_id is neither stored nor carried by an earlier record of    *)
(* the batch returns 0 and stores none of the batch's records; a record    *)
(* that lacks created_at, user_id or user_name and whose tweet_id is       *)
(* stored is skipped, and the rest of the batch is saved as without it.    *)
(***************************************************************************)
C29_MalformedPoisonsBatch ==
    [][IsSaveCall(last') =>
          /\ (\E k \in 1..Len(kept') :
                  LacksRequiredField(kept'[k]) /\ IsNewAt(kept', k, db))
                => last'.ret = 0 /\ last'.err /\ db' = db /\ committed' = committed
          /\ (~\E k \in 1..Len(kept') :
                  LacksRequiredField(kept'[k]) /\ IsNewAt(kept', k, db))
                => /\ ~last'.err
                   /\ \A k \in 1..Len(kept') :
                          kept'[k].tweet_id # NULL /\ TweetExists(db', kept'[k].tweet_id)]_vars

\* a well-formed new record came before a malformed new one: it was inserted
\* and rolled back
C29_Witness ==
    /\ IsSaveCall(last) /\ last.err /\ last.ret = 0 /\ last.saved_count = 1
    /\ Len(kept) = 2
    /\ ~LacksRequiredField(kept[1]) /\ LacksRequiredField(kept[2])
    /\ ~TweetExists(db, kept[1].tweet_id)
    /\ db.tweets # <<>>

\* the names of st.brands are pairwise distinct, none is empty, and each is
\* the brand_mentioned of a tweets row of st
RegistrySound(st) ==
    /\ \A i, j \in 1..Len(st.brands) : st.brands[i].name = st.brands[j].name => i = j
    /\ \A i \in 1..Len(st.brands) :
           /\ st.brands[i].name # <<>>
           /\ \E t \in 1..Len(st.tweets) :
                  st.tweets[t].brand_mentioned = Text(st.brands[i].name)

(***************************************************************************)
(* C30.  In every reachable state the names of brands are pairwise         *)
(* distinct, none is empty, and each is the brand_mentioned of a stored    *)
(* tweet.                                                                  *)
(***************************************************************************)
C30_BrandRegistrySound == RegistrySound(committed) /\ RegistrySound(db)
====
